---- MODULE Spec2Model ----
(***************************************************************************)
(* Claim lifecycle of the Wand credibility engine.                         *)
(*                                                                         *)
(* services/geminiService.ts: analyzeTextForClaims, verifyClaimWithSearch, *)
(* resolveUpdates and getLevelFromScore; App.tsx: the writes of their      *)
(* results into researchState.claims.                                      *)
(*                                                                         *)
(* The Oracle (Gemini) is the environment: every reply it can give within  *)
(* the bounds below is an input of the actions.                            *)
(*                                                                         *)
(* Numbers.  credibilityScore is an integer.  A raw score of the Oracle is *)
(* a float; it is held here in tenths of a point (595 is 59.5).            *)
(* Strings are TLA+ strings; toLowerCase and includes are computed on      *)
(* their characters.                                                       *)
(***************************************************************************)
EXTENDS Integers, Sequences, FiniteSets, TLC

VARIABLES
    claims,     \* researchState.claims
    call,       \* the service call a handler awaits: function, arguments,
                \* the Oracle's reply and the result, until the handler stores it
                \* (with overlapping runs: the call whose result was stored last)
    calls,      \* handler runs started so far; it numbers the update sources
    isProcessing,   \* researchState.isProcessing
    sources,    \* researchState.sources, each source by the number of its run
    flights     \* the handler runs suspended at an await, each with the values
                \* its closure holds

vars == <<claims, call, calls, isProcessing, sources, flights>>

\* The state only overlapping handler runs use.
overlap == <<isProcessing, sources, flights>>

---------------------------------------------------------------------------
(* Bounds of the model *)

MaxItems == 2          \* items in one extraction reply
MaxExisting == 2       \* claims in the first corpus
MaxIncoming == 1       \* claims in an incoming batch
MaxInteractions == 2   \* entries in one conflict-classification reply
MaxCalls == 2          \* handler runs in one behaviour of SpecOps
MaxRuns == 3           \* handler runs in one behaviour of Spec

---------------------------------------------------------------------------
(* types.ts *)

HIGH == "HIGH"
MEDIUM == "MEDIUM"
LOW == "LOW"
UNKNOWN == "UNKNOWN"
CredibilityLevel == {HIGH, MEDIUM, LOW, UNKNOWN}

Status == {"pending", "analyzing", "verified", "flagged"}

\* credibilityScore: number; // 0-100
MinScore == 0
MaxScore == 100

\* An optional field is a sequence of length 0 (absent) or 1 (present).
Absent == <<>>
Some(v) == <<v>>

---------------------------------------------------------------------------
(* JavaScript built-ins used by the service *)

Max(a, b) == IF a >= b THEN a ELSE b
Min(a, b) == IF a <= b THEN a ELSE b

\* Math.round of a number given in tenths: floor(x + 0.5).
MathRound(tenths) == (tenths + 5) \div 10

UpperAlphabet == "ABCDEFGHIJKLMNOPQRSTUVWXYZ"
LowerAlphabet == "abcdefghijklmnopqrstuvwxyz"

CharAt(s, i) == SubSeq(s, i, i)

LowerChar(c) ==
    IF \E i \in 1..Len(UpperAlphabet) : CharAt(UpperAlphabet, i) = c
    THEN CharAt(LowerAlphabet,
                CHOOSE i \in 1..Len(UpperAlphabet) : CharAt(UpperAlphabet, i) = c)
    ELSE c

RECURSIVE LowerFrom(_, _)
LowerFrom(s, i) ==
    IF i > Len(s) THEN "" ELSE LowerChar(CharAt(s, i)) \o LowerFrom(s, i + 1)

\* k occurs in s at some position.
OccursIn(s, k) ==
    \E i \in 1..(Len(s) - Len(k) + 1) : SubSeq(s, i, i + Len(k) - 1) = k

\* The texts the Oracle's verification reply can carry, and the summaries
\* verifyClaimWithSearch can build from them (lines 117, 127, 131).
VerificationTexts ==
    { "",
      "The claim is FALSE; the accurate figure is 45%.",
      "Independent audits confirm this is TRUE and accurate.",
      "The statement is untrue.",
      "No independent evidence was found." }

Summaries ==
    (VerificationTexts \ {""}) \cup
    { "No external verification found.",
      "Verified via Google Search",
      "Analysis provided without live search links." }

NegativeKeywords == {"false", "incorrect", "misleading", "contradicts"}
PositiveKeywords == {"true", "accurate", "supports"}

\* Both string functions are computed once for the strings of the model.
LowerCased == [s \in Summaries |-> LowerFrom(s, 1)]

KeywordsIn ==
    [s \in {LowerCased[t] : t \in Summaries} |->
        {k \in NegativeKeywords \cup PositiveKeywords : OccursIn(s, k)}]

\* String.prototype.toLowerCase
ToLowerCase(s) ==
    IF s \in DOMAIN LowerCased THEN LowerCased[s] ELSE LowerFrom(s, 1)

\* String.prototype.includes
Includes(s, k) ==
    IF s \in DOMAIN KeywordsIn /\ k \in NegativeKeywords \cup PositiveKeywords
    THEN k \in KeywordsIn[s]
    ELSE OccursIn(s, k)

---------------------------------------------------------------------------
(* getLevelFromScore, geminiService.ts 280-284 *)

\* Mutant: the HIGH band starts one point late.
getLevelFromScore_LateHigh(score) ==
    IF score > 80 THEN HIGH
    ELSE IF score >= 50 THEN MEDIUM
    ELSE LOW

getLevelFromScore(score) ==
    IF score >= 80 THEN HIGH
    ELSE IF score >= 50 THEN MEDIUM
    ELSE LOW

---------------------------------------------------------------------------
(* analyzeTextForClaims, geminiService.ts 20-85 *)

\* item.score < 60 decides the status of a new claim (line 77).
FlagBelow == 60

\* `${source.id}_claim_${index}_${Date.now()}`; index counts from 0.  The
\* source and the index tell the claims of the model apart; the time stamp
\* is left out.
ClaimId(sourceId, index) == <<sourceId, index>>

\* One element of rawData.map (lines 68-79); item.score is in tenths.
ExtractedClaim(item, index, sourceId) ==
    [ id               |-> ClaimId(sourceId, index),
      text             |-> item.claimText,
      credibilityScore |-> MathRound(item.score),
      credibilityLevel |-> getLevelFromScore(MathRound(item.score)),
      biasAnalysis     |-> item.biasAnalysis,
      verification     |-> Absent,
      status           |-> IF item.score < FlagBelow * 10 THEN "flagged" ELSE "analyzing",
      isNew            |-> TRUE ]

\* reply.ok = FALSE: generateContent threw or JSON.parse failed (catch, 81-84).
analyzeTextForClaims(reply, sourceId) ==
    IF reply.ok
    THEN [i \in 1..Len(reply.rawData) |->
             ExtractedClaim(reply.rawData[i], i - 1, sourceId)]
    ELSE <<>>


---------------------------------------------------------------------------
(* verifyClaimWithSearch, geminiService.ts 91-162 *)

IncludesAny(s, keywords) == \E k \in keywords : Includes(s, k)

\* The verification object built from the reply (lines 115-132).
\* reply.chunks: "none" (groundingChuncks missing or empty), "web" (a chunk
\* with a web source), "other" (chunks, none of them with a web source).
\* sourceTitle and sourceUrl are left out: nothing reads them.
BuildVerification(reply) ==
    IF reply.chunks = "web"
    THEN [isVerified |-> TRUE,
          summary    |-> IF reply.text # "" THEN reply.text
                         ELSE "Verified via Google Search"]
    ELSE IF reply.chunks = "other"
    THEN [isVerified |-> FALSE, summary |-> "No external verification found."]
    ELSE [isVerified |-> FALSE,
          summary    |-> IF reply.text # "" THEN reply.text
                         ELSE "Analysis provided without live search links."]

\* Mutant: the positive keywords are tested before the negative ones.
AdjustScore_PositiveFirst(score, lowerSummary) ==
    IF IncludesAny(lowerSummary, PositiveKeywords)
    THEN [newScore |-> Min(100, Max(80, score + 30)), newStatus |-> "verified"]
    ELSE IF IncludesAny(lowerSummary, NegativeKeywords)
    THEN [newScore |-> 10, newStatus |-> "flagged"]
    ELSE [newScore |-> Min(100, score + 10), newStatus |-> "verified"]

\* Lines 135-148: the score and status from the lower-cased summary.
AdjustScore(score, lowerSummary) ==
    IF IncludesAny(lowerSummary, NegativeKeywords)
    THEN [newScore |-> 10, newStatus |-> "flagged"]
    ELSE IF IncludesAny(lowerSummary, PositiveKeywords)
    THEN [newScore |-> Min(100, Max(80, score + 30)), newStatus |-> "verified"]
    ELSE [newScore |-> Min(100, score + 10), newStatus |-> "verified"]

\* reply.ok = FALSE: generateContent or response.text() threw (catch, 158-161).
verifyClaimWithSearch(claim, reply) ==
    IF reply.ok
    THEN LET verification == BuildVerification(reply)
             adjusted == AdjustScore(claim.credibilityScore,
                                     ToLowerCase(verification.summary))
         IN  [claim EXCEPT !.verification     = Some(verification),
                           !.credibilityScore = adjusted.newScore,
                           !.credibilityLevel = getLevelFromScore(adjusted.newScore),
                           !.status           = adjusted.newStatus]
    ELSE [claim EXCEPT !.status = "flagged"]

---------------------------------------------------------------------------
(* resolveUpdates, geminiService.ts 168-234 *)

WarningPrefix == "[UPDATE WARNING] Contradicted by newer source: "
ReinforcedNote == " [UPDATE] Reinforced by newer source."

\* Mutant: the first entry for a key is kept.
InteractionFor_FirstWins(interactions, id) ==
    LET hits == {i \in 1..Len(interactions) : interactions[i].existingId = id}
    IN  IF hits = {} THEN Absent
        ELSE Some(interactions[CHOOSE i \in hits : \A j \in hits : j >= i])

\* new Map(interactions.map(i => [i.existingId, i])).get(id), lines 203, 206:
\* a later entry for a key replaces an earlier one.
InteractionFor(interactions, id) ==
    LET hits == {i \in 1..Len(interactions) : interactions[i].existingId = id}
    IN  IF hits = {} THEN Absent
        ELSE Some(interactions[CHOOSE i \in hits : \A j \in hits : j <= i])

\* Mutant: a contradicted claim's level is recomputed from its new score.
Contradicted_LevelFromScore(claim, reason) ==
    [claim EXCEPT !.credibilityScore = Max(0, claim.credibilityScore - 30),
                  !.credibilityLevel = getLevelFromScore(Max(0, claim.credibilityScore - 30)),
                  !.biasAnalysis     = WarningPrefix \o reason,
                  !.status           = "flagged"]

\* Mutant: the penalty is applied without Math.max.
Contradicted_NoFloor(claim, reason) ==
    [claim EXCEPT !.credibilityScore = claim.credibilityScore - 30,
                  !.credibilityLevel = LOW,
                  !.biasAnalysis     = WarningPrefix \o reason,
                  !.status           = "flagged"]

\* Lines 209-215.
Contradicted(claim, reason) ==
    [claim EXCEPT !.credibilityScore = Max(0, claim.credibilityScore - 30),
                  !.credibilityLevel = LOW,
                  !.biasAnalysis     = WarningPrefix \o reason,
                  !.status           = "flagged"]

\* Lines 218-222: credibilityLevel is not among the fields written.
Reinforced(claim) ==
    [claim EXCEPT !.credibilityScore = Min(100, claim.credibilityScore + 10),
                  !.biasAnalysis     = claim.biasAnalysis \o ReinforcedNote]

\* The callback of existingClaims.map, lines 205-226.
UpdateExisting(claim, interactions) ==
    LET interact == InteractionFor(interactions, claim.id)
    IN  IF interact = Absent THEN claim
        ELSE IF interact[1].interaction = "contradicts"
        THEN Contradicted(claim, interact[1].reason)
        ELSE IF interact[1].interaction = "reinforces"
        THEN Reinforced(claim)
        ELSE claim

\* Mutant: the updated existing claims come first.
resolveUpdates_ExistingFirst(existingClaims, newClaims, reply) ==
    IF Len(existingClaims) = 0 THEN newClaims
    ELSE IF reply.ok
    THEN [i \in 1..Len(existingClaims) |->
             UpdateExisting(existingClaims[i], reply.interactions)] \o newClaims
    ELSE newClaims \o existingClaims

\* Mutant: the catch block returns the existing claims only.
resolveUpdates_CatchDropsIncoming(existingClaims, newClaims, reply) ==
    IF Len(existingClaims) = 0 THEN newClaims
    ELSE IF reply.ok
    THEN newClaims \o [i \in 1..Len(existingClaims) |->
                          UpdateExisting(existingClaims[i], reply.interactions)]
    ELSE existingClaims

\* reply.ok = FALSE: generateContent threw, JSON.parse threw or the parsed
\* value is no array of objects (catch, 230-233).  With no existing claim the
\* Oracle is not asked and reply is not read (line 169).
resolveUpdates(existingClaims, newClaims, reply) ==
    IF Len(existingClaims) = 0 THEN newClaims
    ELSE IF reply.ok
    THEN newClaims \o [i \in 1..Len(existingClaims) |->
                          UpdateExisting(existingClaims[i], reply.interactions)]
    ELSE newClaims \o existingClaims

---------------------------------------------------------------------------
(* The Oracle's extraction replies *)

\* Raw scores in tenths: below 0, halves that round across a boundary,
\* in range, above 100.
RawScores == {-305, -5, 0, 550, 594, 595, 600, 1000, 1005, 1500}

ExtractionItem(score) ==
    [claimText |-> "claim", biasAnalysis |-> "Self-reported.", score |-> score]

\* All sequences over S of length 0..n.
SeqsUpTo(S, n) == UNION {[1..k -> S] : k \in 0..n}

ExtractionFailure == [ok |-> FALSE, rawData |-> <<>>]

ExtractionReplies(scores, n) ==
    {ExtractionFailure} \cup
    {[ok |-> TRUE, rawData |-> [i \in 1..Len(raw) |-> ExtractionItem(raw[i])]] :
        raw \in SeqsUpTo(scores, n)}

(* The Oracle's verification and conflict-classification replies *)

VerificationFailure == [ok |-> FALSE, chunks |-> "none", text |-> ""]

VerificationReplies ==
    {VerificationFailure} \cup
    {[ok |-> TRUE, chunks |-> c, text |-> t] :
        c \in {"none", "web", "other"}, t \in VerificationTexts}

\* "unrelated" is a kind the prompt does not list.
InteractionKinds == {"contradicts", "reinforces", "neutral", "unrelated"}

\* An id no claim has.
GhostId == <<-1, 0>>

Reasons == <<"figures disagree", "audit differs", "later report", "retracted">>

\* The reason of the entry at position i.
ReasonAt(i) == Reasons[((i - 1) % Len(Reasons)) + 1]

Ids(list) == {list[i].id : i \in 1..Len(list)}

ConflictFailure == [ok |-> FALSE, interactions |-> <<>>]

\* Every list of at most n entries over the ids, duplicate ids included.
ConflictReplies(ids, n) ==
    {ConflictFailure} \cup
    {[ok |-> TRUE,
      interactions |-> [i \in 1..Len(picks) |->
                           [existingId  |-> picks[i][1],
                            interaction |-> picks[i][2],
                            reason      |-> ReasonAt(i)]]] :
        picks \in SeqsUpTo(ids \X InteractionKinds, n)}

\* Raw scores (tenths) of claims whose score starts in [0,100].
CorpusScores == {200, 550, 750, 1000}
IncomingScores == {650}

\* The claims of a first extraction from source 0.
Corpora ==
    {analyzeTextForClaims(reply, 0) :
        reply \in ExtractionReplies(CorpusScores, MaxExisting)}

---------------------------------------------------------------------------
(* The caller's state *)

Idle == [fn |-> "none"]

\* The claims of the update source, the source being numbered calls + 1.
IncomingBatches ==
    {analyzeTextForClaims(reply, calls + 1) :
        reply \in ExtractionReplies(IncomingScores, MaxIncoming)}

\* handleAnalyze, App.tsx 45-58: the extraction call.
AnalyzeCall ==
    /\ call = Idle
    /\ \E reply \in ExtractionReplies(RawScores, MaxItems) :
           call' = [fn     |-> "analyzeTextForClaims",
                    reply  |-> reply,
                    result |-> analyzeTextForClaims(reply, calls)]
    /\ UNCHANGED <<claims, calls, overlap>>

\* handleAnalyze, App.tsx 60-65: claims: extractedClaims.
AnalyzeStore ==
    /\ call.fn = "analyzeTextForClaims"
    /\ claims' = call.result
    /\ call' = Idle
    /\ UNCHANGED <<calls, overlap>>

\* getLevelFromScore applied to one score.
LevelOf ==
    /\ call = Idle
    /\ \E score \in MinScore..MaxScore :
           call' = [fn |-> "getLevelFromScore", score |-> score,
                    result |-> getLevelFromScore(score)]
    /\ UNCHANGED <<claims, calls, overlap>>

\* handleVerify, App.tsx 97-104: the optimistic update and the call, for a
\* claim of the list shown.  limit bounds the handler runs of a behaviour.
VerifyCall(limit) ==
    /\ call = Idle
    /\ calls < limit
    /\ \E k \in 1..Len(claims), reply \in VerificationReplies :
           LET claimToVerify == claims[k] IN
           /\ claims' = [i \in 1..Len(claims) |->
                            IF claims[i].id = claimToVerify.id
                            THEN [claims[i] EXCEPT !.status = "analyzing"]
                            ELSE claims[i]]
           /\ call' = [fn     |-> "verifyClaimWithSearch",
                       claim  |-> claimToVerify,
                       reply  |-> reply,
                       result |-> verifyClaimWithSearch(claimToVerify, reply)]
    /\ calls' = calls + 1
    /\ UNCHANGED overlap

\* handleVerify, App.tsx 106-109: the claim with that id becomes the result.
VerifyStore ==
    /\ call.fn = "verifyClaimWithSearch"
    /\ claims' = [i \in 1..Len(claims) |->
                     IF claims[i].id = call.claim.id THEN call.result ELSE claims[i]]
    /\ call' = Idle
    /\ UNCHANGED <<calls, overlap>>

\* handleUpdate, App.tsx 69-86: the extraction of the update source (its
\* claims are newClaims) and the merge with the claims held.  With no claim
\* held the Oracle is not asked.
UpdateCall(limit) ==
    /\ call = Idle
    /\ calls < limit
    /\ \E newClaims \in IncomingBatches,
          reply \in IF claims = <<>> THEN {ConflictFailure}
                    ELSE ConflictReplies(Ids(claims) \cup {GhostId}, MaxInteractions) :
           call' = [fn             |-> "resolveUpdates",
                    existingClaims |-> claims,
                    newClaims      |-> newClaims,
                    reply          |-> reply,
                    result         |-> resolveUpdates(claims, newClaims, reply)]
    /\ calls' = calls + 1
    /\ UNCHANGED <<claims, overlap>>

\* handleUpdate, App.tsx 88-93: claims: mergedClaims.
UpdateStore ==
    /\ call.fn = "resolveUpdates"
    /\ claims' = call.result
    /\ call' = Idle
    /\ UNCHANGED <<calls, overlap>>

(* Extraction and the score bands *)

InitScore ==
    /\ claims = <<>>
    /\ call = Idle
    /\ calls = 0
    /\ isProcessing = FALSE
    /\ sources = <<>>
    /\ flights = {}

NextScore == AnalyzeCall \/ AnalyzeStore \/ LevelOf

SpecScore == InitScore /\ [][NextScore]_vars

(* Verification and merge, one handler at a time, on claims whose scores
   start in [0,100] *)

InitOps ==
    /\ claims \in Corpora
    /\ call = Idle
    /\ calls = 0
    /\ isProcessing = FALSE
    /\ sources = <<0>>
    /\ flights = {}

NextOps ==
    \/ VerifyCall(MaxCalls)
    \/ VerifyStore
    \/ UpdateCall(MaxCalls)
    \/ UpdateStore

SpecOps == InitOps /\ [][NextOps]_vars

\* The same handlers, one run from the first corpus.
NextCall ==
    \/ VerifyCall(1)
    \/ VerifyStore
    \/ UpdateCall(1)
    \/ UpdateStore

SpecCall == InitOps /\ [][NextCall]_vars

---------------------------------------------------------------------------
(* App.tsx: handler runs that overlap.

   A handler runs to its await in one step and from the await's result to
   its end in another; between the two it is a flight.  The Oracle's reply is
   drawn when the call resolves.  Here call is the service call whose result
   the last step stored (Idle after any other step), with the list that was
   in the store before the write. *)

\* Raw scores (tenths) of a first extraction: one below 60, one above.
AppScores == {450, 700}

\* researchState.claims read from the store when the merge is called.
ExistingOf_Store(captured, current) == current

\* researchState.claims as the closure of handleUpdate reads it: the list of
\* the render in which the handler was invoked, not the list now in the store.
ExistingOf(captured, current) == captured

\* prev.claims.map(c => c.id === claimToVerify.id ? verifiedClaim : c)
ReplaceById(list, id, claim) ==
    [i \in 1..Len(list) |-> IF list[i].id = id THEN claim ELSE list[i]]

\* prev.claims.map(c => c.id === claimToVerify.id ? {...c, status} : c)
SetStatusById(list, id, status) ==
    [i \in 1..Len(list) |->
        IF list[i].id = id THEN [list[i] EXCEPT !.status = status] ELSE list[i]]

\* The flight of the handler run numbered calls + 1.
Flight(fn) == [n |-> calls + 1, fn |-> fn]

\* handleAnalyze, App.tsx 45-58, from the button that isProcessing disables.
\* The input text is not empty.
handleAnalyze ==
    /\ calls < MaxRuns
    /\ ~isProcessing
    /\ isProcessing' = TRUE
    /\ flights' = flights \cup {Flight("handleAnalyze")}
    /\ calls' = calls + 1
    /\ call' = Idle
    /\ UNCHANGED <<claims, sources>>

\* handleAnalyze, App.tsx 58-65: the extraction resolves; claims:
\* extractedClaims.
handleAnalyzeResume ==
    \E f \in flights :
        /\ f.fn = "handleAnalyze"
        /\ \E reply \in ExtractionReplies(AppScores, MaxItems) :
               LET extractedClaims == analyzeTextForClaims(reply, f.n) IN
               /\ claims' = extractedClaims
               /\ call' = [fn     |-> "analyzeTextForClaims",
                           n      |-> f.n,
                           reply  |-> reply,
                           result |-> extractedClaims,
                           store  |-> claims]
        /\ isProcessing' = FALSE
        /\ sources' = Append(sources, f.n)
        /\ flights' = flights \ {f}
        /\ UNCHANGED calls

\* handleUpdate, App.tsx 69-82, from the button that is shown once there is a
\* source (App.tsx 247) and that isProcessing disables.
handleUpdate ==
    /\ calls < MaxRuns
    /\ Len(sources) > 0
    /\ ~isProcessing
    /\ isProcessing' = TRUE
    /\ flights' = flights \cup
                      {[n |-> calls + 1, fn |-> "handleUpdate", claims |-> claims]}
    /\ calls' = calls + 1
    /\ call' = Idle
    /\ UNCHANGED <<claims, sources>>

\* handleUpdate, App.tsx 82-93: the extraction of the update source and the
\* merge resolve; claims: mergedClaims.  With no existing claim the Oracle is
\* not asked about conflicts.
handleUpdateResume ==
    \E f \in flights :
        /\ f.fn = "handleUpdate"
        /\ LET existingClaims == ExistingOf(f.claims, claims) IN
           \E extraction \in ExtractionReplies(IncomingScores, MaxIncoming),
              reply \in IF existingClaims = <<>> THEN {ConflictFailure}
                        ELSE ConflictReplies(Ids(existingClaims) \cup {GhostId},
                                             MaxInteractions) :
               LET newClaims == analyzeTextForClaims(extraction, f.n)
                   mergedClaims == resolveUpdates(existingClaims, newClaims, reply)
               IN  /\ claims' = mergedClaims
                   /\ call' = [fn             |-> "resolveUpdates",
                               n              |-> f.n,
                               captured       |-> f.claims,
                               existingClaims |-> existingClaims,
                               newClaims      |-> newClaims,
                               reply          |-> reply,
                               result         |-> mergedClaims,
                               store          |-> claims]
        /\ isProcessing' = FALSE
        /\ sources' = Append(sources, f.n)
        /\ flights' = flights \ {f}
        /\ UNCHANGED calls

\* handleVerify, App.tsx 97-104, for a claim of the list shown (App.tsx 291):
\* the optimistic update, then the call.
handleVerify ==
    /\ calls < MaxRuns
    /\ \E k \in 1..Len(claims) :
           LET claimToVerify == claims[k] IN
           /\ claims' = SetStatusById(claims, claimToVerify.id, "analyzing")
           /\ flights' = flights \cup
                             {[n |-> calls + 1, fn |-> "handleVerify",
                               claimToVerify |-> claimToVerify]}
    /\ calls' = calls + 1
    /\ call' = Idle
    /\ UNCHANGED <<isProcessing, sources>>

\* handleVerify, App.tsx 104-109: the verification resolves; the claim of the
\* store with that id becomes verifiedClaim.
handleVerifyResume ==
    \E f \in flights :
        /\ f.fn = "handleVerify"
        /\ \E reply \in VerificationReplies :
               LET verifiedClaim == verifyClaimWithSearch(f.claimToVerify, reply) IN
               /\ claims' = ReplaceById(claims, f.claimToVerify.id, verifiedClaim)
               /\ call' = [fn     |-> "verifyClaimWithSearch",
                           n      |-> f.n,
                           claim  |-> f.claimToVerify,
                           reply  |-> reply,
                           result |-> verifiedClaim,
                           store  |-> claims]
        /\ flights' = flights \ {f}
        /\ UNCHANGED <<calls, isProcessing, sources>>

\* handleGenerateReport, App.tsx 113-118, past the guard on reportText (the
\* Regenerate button, App.tsx 167-168, clears it and is shown whatever
\* isProcessing is).
handleGenerateReport ==
    /\ calls < MaxRuns
    /\ isProcessing' = TRUE
    /\ flights' = flights \cup {Flight("handleGenerateReport")}
    /\ calls' = calls + 1
    /\ call' = Idle
    /\ UNCHANGED <<claims, sources>>

\* handleGenerateReport, App.tsx 118-120: the report resolves.
handleGenerateReportResume ==
    \E f \in flights :
        /\ f.fn = "handleGenerateReport"
        /\ isProcessing' = FALSE
        /\ flights' = flights \ {f}
        /\ call' = [fn |-> "generateRefinedReport", n |-> f.n]
        /\ UNCHANGED <<claims, calls, sources>>

\* useState, App.tsx 37-42.
Init ==
    /\ claims = <<>>
    /\ call = Idle
    /\ calls = 0
    /\ isProcessing = FALSE
    /\ sources = <<>>
    /\ flights = {}

Next ==
    \/ handleAnalyze
    \/ handleAnalyzeResume
    \/ handleUpdate
    \/ handleUpdateResume
    \/ handleVerify
    \/ handleVerifyResume
    \/ handleGenerateReport
    \/ handleGenerateReportResume

Spec == Init /\ [][Next]_vars

---------------------------------------------------------------------------
(* Properties of extraction and of the score bands *)

Clamp(x) == Min(100, Max(0, x))

Extracted == call.fn = "analyzeTextForClaims" /\ call.reply.ok

\* C2 (as claimed): the score of every claim created by extraction is the raw
\* score rounded to the nearest integer and clamped to [0,100].
C2_RoundedAndClamped ==
    /\ Extracted =>
           \A i \in 1..Len(call.result) :
               call.result[i].credibilityScore
                   = Clamp(MathRound(call.reply.rawData[i].score))
    /\ \A i \in 1..Len(claims) : claims[i].credibilityScore \in 0..100

\* C3 (as claimed): a claim created by extraction is 'flagged' exactly when
\* its stored, rounded score is below 60, and 'analyzing' otherwise.
C3_StatusFromStoredScore ==
    Extracted =>
        \A i \in 1..Len(call.result) :
            call.result[i].status =
                IF call.result[i].credibilityScore < 60 THEN "flagged" ELSE "analyzing"

\* C4: for every integer score s in [0,100] the level is HIGH iff s >= 80,
\* MEDIUM iff 50 <= s < 80, LOW iff s < 50, and never UNKNOWN.
C4_LevelBands ==
    (call.fn = "getLevelFromScore" /\ call.score \in 0..100) =>
        /\ (call.result = HIGH) <=> (call.score >= 80)
        /\ (call.result = MEDIUM) <=> (call.score >= 50 /\ call.score < 80)
        /\ (call.result = LOW) <=> (call.score < 50)
        /\ call.result # UNKNOWN
        /\ call.result \in CredibilityLevel

C4_Witness ==
    /\ call.fn = "getLevelFromScore"
    /\ call.score = 80
    /\ call.result = HIGH

---------------------------------------------------------------------------
(* Properties of verification *)

InRange(score) == score \in 0..100

\* The level the score bands give (HIGH from 80, MEDIUM from 50, else LOW).
BandOf(score) ==
    CASE score >= 80 -> HIGH
      [] score >= 50 /\ score < 80 -> MEDIUM
      [] score < 50 -> LOW

Verified == call.fn = "verifyClaimWithSearch" /\ call.reply.ok

Merged == call.fn = "resolveUpdates" /\ call.existingClaims # <<>>

\* C1: starting from scores in [0,100], every claim's score is in [0,100]
\* after any sequence of verification outcomes and conflict interactions.
C1_ScoresInRange ==
    /\ \A i \in 1..Len(claims) : InRange(claims[i].credibilityScore)
    /\ call.fn = "verifyClaimWithSearch" => InRange(call.result.credibilityScore)
    /\ call.fn = "resolveUpdates" =>
           \A i \in 1..Len(call.result) : InRange(call.result[i].credibilityScore)

\* Two merges: one claim penalised at the floor, one reinforced at the cap.
C1_Witness ==
    /\ call = Idle
    /\ calls = 2
    /\ \E i, j \in 1..Len(claims) :
           /\ claims[i].credibilityScore = 0
           /\ claims[i].status = "flagged"
           /\ claims[j].credibilityScore = 100
           /\ claims[j].biasAnalysis
                  = "Self-reported." \o ReinforcedNote \o ReinforcedNote

\* C5: a successful verification classifies the summary in priority order:
\* a negative keyword gives score 10 and 'flagged', also next to a positive
\* keyword; else a positive keyword gives min(100, max(80, prior + 30)) and
\* 'verified'; else min(100, prior + 10) and 'verified'; the level is the band
\* of the new score.
C5_VerificationPriority ==
    Verified =>
        LET prior == call.claim.credibilityScore
            lower == ToLowerCase(call.result.verification[1].summary)
            negative == \E k \in {"false", "incorrect", "misleading", "contradicts"} :
                            Includes(lower, k)
            positive == \E k \in {"true", "accurate", "supports"} : Includes(lower, k)
            expected == IF negative THEN 10
                        ELSE IF positive THEN Min(100, Max(80, prior + 30))
                        ELSE Min(100, prior + 10)
        IN  /\ call.result.credibilityScore = expected
            /\ call.result.status = IF negative THEN "flagged" ELSE "verified"
            /\ call.result.credibilityLevel = BandOf(expected)

\* A summary with a negative and a positive keyword, on a claim scored 55.
C5_Witness ==
    /\ Verified
    /\ call.claim.credibilityScore = 55
    /\ call.result.verification[1].summary
           = "The claim is FALSE; the accurate figure is 45%."
    /\ call.result.credibilityScore = 10
    /\ call.result.status = "flagged"

---------------------------------------------------------------------------
(* Properties of the merge *)

\* The entries of the reply that name the claim; the last of them is the
\* claim's interaction.
EntriesFor(c) ==
    {i \in 1..Len(call.reply.interactions) :
        call.reply.interactions[i].existingId = c.id}

LastFor(c) == CHOOSE i \in EntriesFor(c) : \A j \in EntriesFor(c) : j <= i

KindFor(c) ==
    IF EntriesFor(c) = {} THEN "absent"
    ELSE call.reply.interactions[LastFor(c)].interaction

ReasonFor(c) == call.reply.interactions[LastFor(c)].reason

\* The claim the merge returns for the i-th existing claim.
Outcome(i) == call.result[Len(call.newClaims) + i]

\* C6: an existing claim with score s whose interaction is 'contradicts'
\* comes out with score max(0, s - 30), level LOW whatever its prior level and
\* the band of the new score, status 'flagged', and the warning with the
\* reason in place of its bias text.
C6_Contradiction ==
    (Merged /\ call.reply.ok) =>
        \A i \in 1..Len(call.existingClaims) :
            LET c == call.existingClaims[i] IN
            KindFor(c) = "contradicts" =>
                Outcome(i) =
                    [c EXCEPT
                        !.credibilityScore = Max(0, c.credibilityScore - 30),
                        !.credibilityLevel = LOW,
                        !.status = "flagged",
                        !.biasAnalysis =
                            "[UPDATE WARNING] Contradicted by newer source: "
                                \o ReasonFor(c)]

\* A claim scored 100 (HIGH) is contradicted: 70 is in the MEDIUM band, the
\* level is LOW.
C6_Witness ==
    /\ Merged /\ call.reply.ok
    /\ \E i \in 1..Len(call.existingClaims) :
           /\ KindFor(call.existingClaims[i]) = "contradicts"
           /\ call.existingClaims[i].credibilityScore = 100
           /\ call.existingClaims[i].credibilityLevel = HIGH
           /\ Outcome(i).credibilityScore = 70
           /\ Outcome(i).credibilityLevel = LOW

\* C7 (as claimed): an existing claim with score s whose interaction is
\* 'reinforces' comes out with score min(100, s + 10), the level of the new
\* score, its status, and its bias text with the reinforcement note appended.
C7_Reinforcement ==
    (Merged /\ call.reply.ok) =>
        \A i \in 1..Len(call.existingClaims) :
            LET c == call.existingClaims[i] IN
            KindFor(c) = "reinforces" =>
                /\ Outcome(i).credibilityScore = Min(100, c.credibilityScore + 10)
                /\ Outcome(i).credibilityLevel = BandOf(Outcome(i).credibilityScore)
                /\ Outcome(i).status = c.status
                /\ Outcome(i).biasAnalysis
                       = c.biasAnalysis \o " [UPDATE] Reinforced by newer source."

\* C8: for a non-empty existing list the merge returns the incoming claims in
\* their order, then the existing claims (same ids) in their order, whatever
\* the Oracle returns: len(E) + len(N) claims, none dropped.
C8_OrderAndNoLoss ==
    Merged =>
        /\ Len(call.result) = Len(call.existingClaims) + Len(call.newClaims)
        /\ \A i \in 1..Len(call.newClaims) : call.result[i] = call.newClaims[i]
        /\ \A i \in 1..Len(call.existingClaims) :
               Outcome(i).id = call.existingClaims[i].id

\* Two existing claims, one incoming, a reply that names one id twice.
C8_Witness ==
    /\ Merged /\ call.reply.ok
    /\ Len(call.existingClaims) = 2
    /\ Len(call.newClaims) = 1
    /\ Len(call.reply.interactions) = 2
    /\ call.reply.interactions[1].existingId = call.reply.interactions[2].existingId
    /\ call.reply.interactions[1].existingId = call.existingClaims[2].id
    /\ call.reply.interactions[1].interaction = "contradicts"
    /\ call.reply.interactions[2].interaction = "unrelated"
    /\ Len(call.result) = 3

\* C9: when the conflict-classification call fails the merge returns the
\* incoming claims followed by the existing claims, each unchanged.
C9_FailOpen ==
    (Merged /\ ~call.reply.ok) =>
        call.result = call.newClaims \o call.existingClaims

C9_Witness ==
    /\ Merged /\ ~call.reply.ok
    /\ Len(call.existingClaims) = 2
    /\ Len(call.newClaims) = 1
    /\ call.result[1] = call.newClaims[1]
    /\ call.result[2] = call.existingClaims[1]
    /\ call.result[3] = call.existingClaims[2]

\* A list that holds a claim of an update source is one a merge returned.
FromMerge(list) == \E i \in 1..Len(list) : list[i].id[1] > 0

EmptyBatch == call.fn = "resolveUpdates" /\ call.newClaims = <<>>

\* C10 (as claimed): merging an empty batch into the result of a merge
\* returns that result, whatever the Oracle answers.
C10_IdempotentAnyReply ==
    (EmptyBatch /\ FromMerge(call.existingClaims)) =>
        call.result = call.existingClaims

\* The reply changes no claim of the list: the call failed, or no claim's
\* interaction is 'contradicts' or 'reinforces'.
Harmless ==
    \/ ~call.reply.ok
    \/ \A i \in 1..Len(call.existingClaims) :
           KindFor(call.existingClaims[i]) \notin {"contradicts", "reinforces"}

\* C10 (amended): merging an empty batch returns the list unchanged when the
\* Oracle's answer fails or gives no claim of the list a 'contradicts' or
\* 'reinforces' interaction.
C10_IdempotentHarmlessReply ==
    (EmptyBatch /\ Harmless) => call.result = call.existingClaims

\* The second merge, of an empty batch, into a list of two sources, with a
\* reply that names a claim of the list.
C10_Witness ==
    /\ EmptyBatch /\ Harmless
    /\ call.reply.ok
    /\ \E i \in 1..Len(call.existingClaims) :
           KindFor(call.existingClaims[i]) = "neutral"
    /\ \E i, j \in 1..Len(call.existingClaims) :
           /\ call.existingClaims[i].id[1] = 0
           /\ call.existingClaims[j].id[1] > 0
    /\ call.result = call.existingClaims

---------------------------------------------------------------------------
(* Properties of overlapping handler runs *)

\* C11 (as claimed): a claim id present in the store is present in every
\* later state; no run of handleAnalyze, handleUpdate or handleVerify removes
\* a claim.
C11_ClaimsNeverRemoved == [][Ids(claims) \subseteq Ids(claims')]_vars

\* The last step stored the result of a verification that failed.
VerificationFailed == call.fn = "verifyClaimWithSearch" /\ ~call.reply.ok

\* C12 (as claimed): when the verification call for a claim fails, the claim
\* written back to the store has status 'flagged', no verification, and the
\* score and level it was sent with, also when it carried a verification
\* from an earlier run.
C12_FailedVerification ==
    VerificationFailed =>
        \A i \in 1..Len(claims) :
            claims[i].id = call.claim.id =>
                /\ claims[i].status = "flagged"
                /\ claims[i].verification = Absent
                /\ claims[i].credibilityScore = call.claim.credibilityScore
                /\ claims[i].credibilityLevel = call.claim.credibilityLevel

\* What a merge makes of an existing claim, by the claim's interaction in the
\* reply that was stored last.
ExpectedAfterMerge(c) ==
    IF ~call.reply.ok THEN c
    ELSE CASE KindFor(c) = "contradicts" ->
                  [c EXCEPT !.credibilityScore = Max(0, c.credibilityScore - 30),
                            !.credibilityLevel = LOW,
                            !.status = "flagged",
                            !.biasAnalysis =
                                "[UPDATE WARNING] Contradicted by newer source: "
                                    \o ReasonFor(c)]
           [] KindFor(c) = "reinforces" ->
                  [c EXCEPT !.credibilityScore = Min(100, c.credibilityScore + 10),
                            !.biasAnalysis =
                                c.biasAnalysis \o " [UPDATE] Reinforced by newer source."]
           [] OTHER -> c

\* What a verification makes of the claim it was sent, by the reply that was
\* stored last; the verification record is the one of the result.
ExpectedAfterVerify(c) ==
    IF ~call.reply.ok THEN [c EXCEPT !.status = "flagged"]
    ELSE LET lower == ToLowerCase(call.result.verification[1].summary)
             negative == \E k \in {"false", "incorrect", "misleading", "contradicts"} :
                             Includes(lower, k)
             positive == \E k \in {"true", "accurate", "supports"} : Includes(lower, k)
             score == IF negative THEN 10
                      ELSE IF positive THEN Min(100, Max(80, c.credibilityScore + 30))
                      ELSE Min(100, c.credibilityScore + 10)
         IN  [c EXCEPT !.credibilityScore = score,
                       !.credibilityLevel = BandOf(score),
                       !.status = IF negative THEN "flagged" ELSE "verified",
                       !.verification = call.result.verification]

\* C13: a store write is last-write-wins per claim id and computed from what
\* the handler captured when it was invoked, not from the store.  The merge
\* that arrives writes the incoming claims and the claims of the list
\* handleUpdate captured, each as the merge changes the captured claim: what
\* a verification wrote to the store in between is lost.  The verification
\* that arrives writes, at its claim's id, the claim handleVerify captured as
\* the verification changes it, and leaves the other claims of the store:
\* what a merge wrote to that claim in between is lost.
C13_LastWriteWins ==
    /\ call.fn = "resolveUpdates" =>
           claims = call.newClaims \o
                        [i \in 1..Len(call.captured) |->
                            ExpectedAfterMerge(call.captured[i])]
    /\ call.fn = "verifyClaimWithSearch" =>
           /\ Len(claims) = Len(call.store)
           /\ \A i \in 1..Len(claims) :
                  claims[i] = IF call.store[i].id = call.claim.id
                              THEN ExpectedAfterVerify(call.claim)
                              ELSE call.store[i]

\* The merge arrived last: the verification of claim A resolved while
\* handleUpdate was suspended and made A 'verified' in the store; the merge
\* then wrote A back from the list it had captured, without the verification.
C13_Witness ==
    /\ call.fn = "resolveUpdates"
    /\ call.reply.ok
    /\ \E i \in 1..Len(call.captured), j \in 1..Len(call.store) :
           LET k == Len(call.newClaims) + i IN
           /\ call.store[j].id = call.captured[i].id
           /\ call.store[j].status = "verified"
           /\ call.store[j].verification # Absent
           /\ call.captured[i].verification = Absent
           /\ KindFor(call.captured[i]) = "contradicts"
           /\ claims[k].id = call.captured[i].id
           /\ claims[k].verification = Absent
           /\ claims[k].status = "flagged"
           /\ claims[k].credibilityScore = call.captured[i].credibilityScore - 30

\* The verification arrived last: the merge resolved while handleVerify was
\* suspended and penalised claim A in the store; the verification then wrote
\* A back from the claim it had captured, without the penalty or the warning.
C13_VerificationLast ==
    /\ call.fn = "verifyClaimWithSearch"
    /\ call.reply.ok
    /\ \E j \in 1..Len(call.store) :
           /\ call.store[j].id = call.claim.id
           /\ call.store[j].status = "flagged"
           /\ call.store[j].credibilityScore = call.claim.credibilityScore - 30
           /\ call.store[j].biasAnalysis
                  = "[UPDATE WARNING] Contradicted by newer source: figures disagree"
           /\ claims[j].status = "verified"
           /\ claims[j].biasAnalysis = call.claim.biasAnalysis
           /\ claims[j].biasAnalysis = "Self-reported."
           /\ claims[j].credibilityScore = call.claim.credibilityScore + 10

\* The status in a list of the claim with that id, "none" if it is not there.
StatusOf(list, id) ==
    IF \E i \in 1..Len(list) : list[i].id = id
    THEN (CHOOSE c \in {list[i] : i \in 1..Len(list)} : c.id = id).status
    ELSE "none"

\* The step invokes handleVerify on the claim with that id.
VerificationRequested(id) ==
    \E f \in flights' \ flights :
        f.fn = "handleVerify" /\ f.claimToVerify.id = id

\* C14 (as claimed): when the verification call of a claim resolves, with
\* success or failure, the claim is 'verified' or 'flagged' in the store, and
\* the next step does not put it back into 'analyzing' unless that step
\* requests a new verification of it, whatever other handler runs are
\* suspended.
C14_VerificationSettles ==
    [][/\ (call'.fn = "verifyClaimWithSearch" /\ call' # call) =>
              StatusOf(claims', call'.claim.id) \in {"verified", "flagged", "none"}
       /\ (call.fn = "verifyClaimWithSearch"
              /\ StatusOf(claims, call.claim.id) \in {"verified", "flagged"}
              /\ ~VerificationRequested(call.claim.id)) =>
              StatusOf(claims', call.claim.id) # "analyzing"]_vars

\* A step of handleUpdate or handleVerify keeps every claim id of the store
\* it writes over or of the list it captured.
OnlyAnalysisRemoves ==
    [][(call'.fn \in {"resolveUpdates", "verifyClaimWithSearch"} /\ call' # call) =>
           Ids(IF call'.fn = "resolveUpdates" THEN call'.captured ELSE claims)
               \subseteq Ids(claims')]_vars

====
